---- MODULE Spec2Model ----
(***************************************************************************)
(* Model of the prompt index of prompts-mcp-server: PromptCache (the map,  *)
(* the bulk load, the per-file upsert/remove and the chokidar watcher) and *)
(* the PromptFileOperations facade (listPrompts) that drives it.           *)
(*                                                                         *)
(* The host is a single-threaded event loop.  One action of the model is   *)
(* one run-to-completion step of the program: the code between two awaits  *)
(* that hand control back to the loop (a filesystem call, the close of the *)
(* watcher), together with the promise continuations that run in the same  *)
(* tick.  A filesystem call has two sides: the moment the operating system *)
(* performs it (ScanIO, ReadFile) and the later tick in which its          *)
(* continuation runs (ScanDone, LoadDone).                                 *)
(*                                                                         *)
(* Strings are sequences of one-character strings, so that the path and    *)
(* name conversions are computed character by character as the code does.  *)
(***************************************************************************)
EXTENDS Naturals, Sequences, FiniteSets, TLC

\* ------------------------------------------------------------------ bounds
\* the calls made to the server plus the writes made to the directory, in a
\* run of Spec and in a run of SpecDeep
MaxInputs == 2
MaxDeep == 3
\* the same in a run of SpecWatch, which has fewer kinds of them
MaxWatch == 3

\* ----------------------------------------------------------------- strings
Ext == <<".", "m", "d">>

\* String.prototype.endsWith
EndsWith(s, suf) ==
    /\ Len(s) >= Len(suf)
    /\ SubSeq(s, Len(s) - Len(suf) + 1, Len(s)) = suf

\* String.prototype.startsWith
StartsWith(s, pre) ==
    /\ Len(s) >= Len(pre)
    /\ SubSeq(s, 1, Len(pre)) = pre

\* s.replace(/\.md$/, '')
StripMd(s) == IF EndsWith(s, Ext) THEN SubSeq(s, 1, Len(s) - Len(Ext)) ELSE s

\* s.replace(/\//g, '_')
ReplaceSlashes(s) == [i \in 1..Len(s) |-> IF s[i] = "/" THEN "_" ELSE s[i]]

\* a slip: the slashes are kept
NameOfMut(rel) == StripMd(rel)

\* the prompt name of a root-relative path:
\* fileName.replace(/\.md$/, '').replace(/\//g, '_')
NameOf(rel) == ReplaceSlashes(StripMd(rel))

\* the prompts directory, and path.join(promptsDir, rel)
PromptsDir == <<"/", "r">>
Join(dir, rel) == dir \o <<"/">> \o rel

\* path.isAbsolute (POSIX)
IsAbsolute(p) == Len(p) > 0 /\ p[1] = "/"

\* path.relative(promptsDir, p) for a path under the directory
Relative(dir, p) ==
    IF StartsWith(p, dir \o <<"/">>) THEN SubSeq(p, Len(dir) + 2, Len(p)) ELSE p

\* a slip: the absolute path of a watcher event is used as it comes
RelativePathOfMut(filePath) == filePath

\* the relative path updateCacheForFile and removeFromCache work on
RelativePathOf(filePath) ==
    IF IsAbsolute(filePath) THEN Relative(PromptsDir, filePath) ELSE filePath

\* the characters of [a-z0-9-_] with the i flag, and String.toLowerCase
LowerCase == <<"a", "b", "c", "d", "e", "f", "g", "h", "i", "j", "k", "l", "m",
               "n", "o", "p", "q", "r", "s", "t", "u", "v", "w", "x", "y", "z">>
UpperCase == <<"A", "B", "C", "D", "E", "F", "G", "H", "I", "J", "K", "L", "M",
               "N", "O", "P", "Q", "R", "S", "T", "U", "V", "W", "X", "Y", "Z">>
Digits == <<"0", "1", "2", "3", "4", "5", "6", "7", "8", "9">>
IsIn(ch, seq) == \E i \in 1..Len(seq) : seq[i] = ch
SafeChar(ch) ==
    IsIn(ch, LowerCase) \/ IsIn(ch, UpperCase) \/ IsIn(ch, Digits) \/ ch \in {"-", "_"}
ToLowerCase(ch) ==
    IF IsIn(ch, UpperCase)
    THEN LowerCase[CHOOSE i \in 1..Len(UpperCase) : UpperCase[i] = ch]
    ELSE ch

\* a slip: the name is not lowercased
SanitizeFileNameMut(name) ==
    [i \in 1..Len(name) |-> IF SafeChar(name[i]) THEN name[i] ELSE "_"]

\* sanitizeFileName: name.replace(/[^a-z0-9-_]/gi, '_').toLowerCase()
SanitizeFileName(name) ==
    [i \in 1..Len(name) |-> ToLowerCase(IF SafeChar(name[i]) THEN name[i] ELSE "_")]

\* an entry name on the path starts with '.': the walk skips it and its subtree
IsHidden(rel) ==
    \/ (Len(rel) > 0 /\ rel[1] = ".")
    \/ \E i \in 1..(Len(rel) - 1) : rel[i] = "/" /\ rel[i + 1] = "."

\* ------------------------------------------------------------- the directory
P_nested == <<"a", "/", "b", ".", "m", "d">>
P_flat == <<"a", "_", "b", ".", "m", "d">>
P_new == <<"n", "e", "w", ".", "m", "d">>
P_hidden == <<".", "h", "/", "x", ".", "m", "d">>
Paths == {P_nested, P_flat, P_new, P_hidden}

N_ab == <<"a", "_", "b">>
N_new == <<"n", "e", "w">>

\* a file of the directory: absent, or present with a content (identified by
\* the number of the write that produced it) that gray-matter parses or not
NoFile == [exists |-> FALSE, ver |-> 0, ok |-> FALSE]
File(v, ok) == [exists |-> TRUE, ver |-> v, ok |-> ok]

\* the directories the server may be started on
\* (the last one holds a single file, which cannot be parsed)
InitDirs ==
    { [p \in Paths |-> IF p \in S THEN File(0, TRUE) ELSE NoFile] :
        S \in {{}, {P_flat}, {P_nested, P_flat}, {P_flat, P_new},
                {P_flat, P_hidden}} }
    \cup { [p \in Paths |-> IF p = P_new THEN File(0, FALSE) ELSE NoFile] }

VARIABLES
    fs,         \* the directory: Paths -> file
    clock,      \* number of writes made to the directory so far
    cache,      \* PromptCache.cache: name -> PromptInfo
    watcher,    \* PromptCache.watcher: 0 (null) or a subscription id
    isWatcherInitialized,
    subs,       \* the chokidar subscriptions that are open
    nextSub,    \* id of the next subscription
    events,     \* per file, the events chokidar has emitted and not delivered
    tasks,      \* the calls of the public operations that have not returned
    loads,      \* the updateCacheForFile calls awaiting their file
    inputs,     \* calls made and writes done so far
    budget,     \* the bound on inputs in this run
    calls,      \* history: how many calls of which kind were made, whether a
                \* write was missed, whether a loadable file ever existed
    ret,        \* history: the latest return of a public operation
    lastDel     \* history: the latest event delivered to a listener

vars == <<fs, clock, cache, watcher, isWatcherInitialized, subs, nextSub,
          events, tasks, loads, inputs, budget, calls, ret, lastDel>>

EmptyMap == [n \in {} |-> 0]

\* PromptInfo: name, and metadata and preview, both functions of the content
PromptInfo(name, rel, ver) == [name |-> name, src |-> rel, ver |-> ver]

\* a call slot: the call's position and what it holds across its awaits
\* (files: mdFiles); loaded, quiet and pre are history
Idle == [kind |-> "none", pc |-> "idle", files |-> {}, loaded |-> {},
         quiet |-> FALSE, pre |-> EmptyMap, name |-> <<>>, found |-> <<>>]

NoRet == [kind |-> "none", ranBulk |-> FALSE, attached |-> FALSE,
          quiet |-> FALSE, clk |-> 0, files |-> {}, loaded |-> {},
          result |-> EmptyMap, again |-> FALSE, prev |-> EmptyMap,
          name |-> <<>>, found |-> <<>>, walked |-> FALSE, info |-> <<>>,
          text |-> <<>>]

NoEvent == [type |-> "none", rel |-> <<>>, stamp |-> 0, clean |-> FALSE,
            runs |-> 0]

Start(n) ==
    /\ budget = n
    /\ fs \in InitDirs
    /\ clock = 0
    /\ cache = EmptyMap
    /\ watcher = 0
    /\ isWatcherInitialized = FALSE
    /\ subs = {}
    /\ nextSub = 1
    /\ events = [p \in Paths |-> <<>>]
    /\ tasks = [t \in 1..n |-> Idle]
    /\ loads = {}
    /\ inputs = 0
    /\ calls = [list |-> 0, attach |-> 0, cleanup |-> 0, runs |-> 0,
                missed |-> FALSE, info |-> 0, read |-> 0,
                good |-> \E p \in Paths : fs[p].exists /\ fs[p].ok]
    /\ ret = NoRet
    /\ lastDel = NoEvent

Init == Start(MaxInputs)
InitDeep == Start(MaxDeep)

\* ------------------------------------------------------------ the cache ops
\* a slip: the test is whether the watcher was attached, not the map's size
IsEmptyMut(c) == ~isWatcherInitialized

\* PromptCache.isEmpty
IsEmpty(c) == Cardinality(DOMAIN c) = 0

\* PromptCache.getPrompt: the record, or undefined (<<>>)
GetPrompt(c, name) == IF name \in DOMAIN c THEN <<c[name]>> ELSE <<>>

\* a slip: a key that is present keeps its value
MapSetMut(c, k, v) == [n \in DOMAIN c \cup {k} |-> IF n \in DOMAIN c THEN c[n] ELSE v]

\* Map.set
MapSet(c, k, v) == [n \in DOMAIN c \cup {k} |-> IF n = k THEN v ELSE c[n]]

\* Map.delete
MapDelete(c, k) == [n \in DOMAIN c \ {k} |-> c[n]]

\* findMarkdownFiles: the root-relative paths of the non-hidden *.md files
FindMarkdownFiles(dir) ==
    {p \in Paths : dir[p].exists /\ ~IsHidden(p) /\ EndsWith(p, Ext)}

\* loadPromptMetadata, the part before the await: the read it issues
NewLoad(rel, owner, sub, stamp) ==
    [rel |-> rel, owner |-> owner, sub |-> sub, stamp |-> stamp,
     st |-> "pending", ver |-> 0]

\* updateCacheForFile up to its await: nothing for a path that does not end
\* in .md, else the load of the file at the relative path
UpdateCacheForFile(filePath, owner, sub, stamp) ==
    IF ~EndsWith(filePath, Ext) THEN {}
    ELSE {NewLoad(RelativePathOf(filePath), owner, sub, stamp)}

\* fs.readFile and matter(): the content read, or the failure
ReadResult(dir, l) ==
    IF l.rel \in DOMAIN dir /\ dir[l.rel].exists /\ dir[l.rel].ok
    THEN [l EXCEPT !.st = "ok", !.ver = dir[l.rel].ver]
    ELSE [l EXCEPT !.st = "fail"]

\* a slip: the result of a failed load is not tested
ApplyLoadMut(c, l) ==
    MapSet(c, NameOf(l.rel), PromptInfo(NameOf(l.rel), l.rel, l.ver))

\* updateCacheForFile after its await: set the record when there is one
ApplyLoad(c, l) ==
    IF l.st = "ok"
    THEN MapSet(c, NameOf(l.rel), PromptInfo(NameOf(l.rel), l.rel, l.ver))
    ELSE c

\* a slip: the slashes of the relative path are not replaced
RemoveFromCacheMut(c, filePath) ==
    IF ~EndsWith(filePath, Ext) THEN c
    ELSE MapDelete(c, StripMd(RelativePathOf(filePath)))

\* removeFromCache: no await, the whole of it runs in the caller's tick
RemoveFromCache(c, filePath) ==
    IF ~EndsWith(filePath, Ext) THEN c
    ELSE MapDelete(c, NameOf(RelativePathOf(filePath)))

\* ------------------------------------------------------------- the watcher
\* chokidar.watch(promptsDir/**/*.md, {ignored: /^\./}): the regular
\* expression is tested against the path chokidar reports, an absolute one
Ignored(abs) == Len(abs) > 0 /\ abs[1] = "."
Watched(abs) == EndsWith(abs, Ext) /\ ~Ignored(abs)

\* a slip: the isWatcherInitialized guard is missing
InitializeFileWatcherMut ==
    /\ watcher' = nextSub
    /\ subs' = subs \cup {nextSub}
    /\ nextSub' = nextSub + 1
    /\ isWatcherInitialized' = TRUE

\* initializeFileWatcher
InitializeFileWatcher ==
    IF isWatcherInitialized
    THEN UNCHANGED <<watcher, isWatcherInitialized, subs, nextSub>>
    ELSE /\ watcher' = nextSub
         /\ subs' = subs \cup {nextSub}
         /\ nextSub' = nextSub + 1
         /\ isWatcherInitialized' = TRUE

\* the events one write makes the open subscriptions emit, in subscription order
Emitted(type, abs, stamp) ==
    LET ids == [i \in 1..(nextSub - 1) |-> i]
        live == SelectSeq(ids, LAMBDA i : i \in subs /\ Watched(abs))
    IN [k \in 1..Len(live) |-> [type |-> type, sub |-> live[k], stamp |-> stamp]]

\* --------------------------------------------------------------- the calls
Running == {t \in DOMAIN tasks : tasks[t].pc # "idle"}
BulkRunning == {t \in Running : tasks[t].kind \in {"list", "bulk"}}
FreeSlots == {t \in DOMAIN tasks : tasks[t].pc = "idle"}
NextTask == CHOOSE t \in FreeSlots : \A u \in FreeSlots : t <= u

\* one more call or write, within the bound
Input == inputs < budget /\ inputs' = inputs + 1 /\ UNCHANGED budget

\* nothing else is going on when a call starts
QuietNow ==
    /\ Running = {}
    /\ loads = {}
    /\ \A p \in Paths : events[p] = <<>>

\* something else happened while the running calls were under way
Disturb(ts) ==
    [t \in DOMAIN ts |->
        IF ts[t].pc # "idle" THEN [ts[t] EXCEPT !.quiet = FALSE] ELSE ts[t]]

\* history: what a returning call leaves in ret. again: the return before it
\* was a quiet bulk load too and the directory has not changed since
Return(task, ranBulk, c, attached) ==
    LET again == /\ ranBulk /\ task.quiet
                 /\ ret.ranBulk /\ ret.quiet /\ ret.clk = clock
    IN [kind |-> task.kind, ranBulk |-> ranBulk, attached |-> attached,
        quiet |-> task.quiet, clk |-> clock, files |-> task.files,
        loaded |-> task.loaded, result |-> c, again |-> again,
        prev |-> IF again THEN ret.result ELSE EmptyMap,
        name |-> <<>>, found |-> <<>>, walked |-> FALSE, info |-> <<>>,
        text |-> <<>>]

\* initializeCache has resolved: a direct call is over; listPrompts goes on in
\* the same tick, attaches the watcher and returns getAllPrompts()
Finish(t, ts, c) ==
    /\ tasks' = [ts EXCEPT ![t] = Idle]
    /\ IF ts[t].kind = "list"
       THEN /\ InitializeFileWatcher
            /\ calls' = [calls EXCEPT !.attach = @ + 1]
            /\ ret' = Return(ts[t], TRUE, c, isWatcherInitialized')
       ELSE /\ UNCHANGED <<watcher, isWatcherInitialized, subs, nextSub, calls>>
            /\ ret' = Return(ts[t], TRUE, c, isWatcherInitialized)

\* listPrompts: an empty cache starts initializeCache, which awaits the
\* directory; a non-empty one is returned at once
ListCall ==
    /\ Input
    /\ LET new == [Idle EXCEPT !.kind = "list", !.quiet = QuietNow]
       IN IF IsEmpty(cache)
          THEN /\ tasks' = [Disturb(tasks) EXCEPT
                               ![NextTask] = [new EXCEPT !.pc = "scan"]]
               /\ calls' = [calls EXCEPT !.list = @ + 1, !.runs = @ + 1]
               /\ UNCHANGED ret
          ELSE /\ tasks' = Disturb(tasks)
               /\ calls' = [calls EXCEPT !.list = @ + 1]
               /\ ret' = Return(new, FALSE, cache, isWatcherInitialized)
    /\ UNCHANGED <<fs, clock, cache, watcher, isWatcherInitialized, subs,
                   nextSub, events, loads, lastDel>>

\* a direct initializeCache call
BulkCall ==
    /\ Input
    /\ tasks' = [Disturb(tasks) EXCEPT ![NextTask] =
                    [Idle EXCEPT !.kind = "bulk", !.pc = "scan",
                                 !.quiet = QuietNow]]
    /\ calls' = [calls EXCEPT !.runs = @ + 1]
    /\ UNCHANGED <<fs, clock, cache, watcher, isWatcherInitialized, subs,
                   nextSub, events, loads, ret, lastDel>>

\* ensurePromptsDir and findMarkdownFiles read the directory
ScanIO(t) ==
    /\ tasks[t].pc = "scan"
    /\ tasks' = [tasks EXCEPT ![t].pc = "scanned",
                              ![t].files = FindMarkdownFiles(fs)]
    /\ UNCHANGED <<inputs, budget, fs, clock, cache, watcher, isWatcherInitialized,
                   subs, nextSub, events, loads, calls, ret, lastDel>>

\* a slip: the files that already have a record are skipped
FilesToLoadMut(t) == {f \in tasks[t].files : NameOf(f) \notin DOMAIN cache}

\* the files initializeCache loads
FilesToLoad(t) == tasks[t].files

\* the map after initializeCache's this.cache.clear()
Cleared(c) == EmptyMap

\* initializeCache after the scan: clear, then start every load; Promise.all
\* of no load resolves in the same tick
ScanDone(t) ==
    /\ tasks[t].pc = "scanned"
    /\ LET new == UNION {UpdateCacheForFile(f, t, 0, 0) : f \in FilesToLoad(t)}
           ts == [tasks EXCEPT ![t].pc = "loading", ![t].pre = cache]
       IN /\ cache' = Cleared(cache)
          /\ loads' = loads \cup new
          /\ IF new = {}
             THEN Finish(t, ts, cache')
             ELSE /\ tasks' = ts
                  /\ UNCHANGED <<watcher, isWatcherInitialized, subs, nextSub,
                                 ret, calls>>
    /\ UNCHANGED <<inputs, budget, fs, clock, events, lastDel>>

\* the operating system reads the file of a load
ReadFile(l) ==
    /\ l \in loads
    /\ l.st = "pending"
    /\ loads' = (loads \ {l}) \cup {ReadResult(fs, l)}
    /\ UNCHANGED <<inputs, budget, fs, clock, cache, watcher, isWatcherInitialized,
                   subs, nextSub, events, tasks, calls, ret, lastDel>>

\* the continuation of a load; the last load of an initializeCache call
\* resolves its Promise.all in the same tick
LoadDone(l) ==
    /\ l \in loads
    /\ l.st # "pending"
    /\ cache' = ApplyLoad(cache, l)
    /\ loads' = loads \ {l}
    /\ IF l.owner = 0
       THEN UNCHANGED <<tasks, watcher, isWatcherInitialized, subs, nextSub,
                        ret, calls>>
       ELSE LET ts == [tasks EXCEPT ![l.owner].loaded =
                           IF l.st = "ok" THEN @ \cup {NameOf(l.rel)} ELSE @]
            IN IF \E m \in loads' : m.owner = l.owner
               THEN /\ tasks' = ts
                    /\ UNCHANGED <<watcher, isWatcherInitialized, subs,
                                   nextSub, ret, calls>>
               ELSE Finish(l.owner, ts, cache')
    /\ UNCHANGED <<inputs, budget, fs, clock, events, lastDel>>

\* a direct initializeFileWatcher call
AttachCall ==
    /\ Input
    /\ InitializeFileWatcher
    /\ calls' = [calls EXCEPT !.attach = @ + 1]
    /\ tasks' = Disturb(tasks)
    /\ UNCHANGED <<fs, clock, cache, events, loads, ret, lastDel>>

\* what chokidar's close() drops at once: the subscription and its listeners
Purge(q, sub) == SelectSeq(q, LAMBDA e : e.sub # sub)

\* cleanup: with a watcher, close it and await; without, return
CleanupCall ==
    /\ Input
    /\ calls' = [calls EXCEPT !.cleanup = @ + 1]
    /\ LET new == [Idle EXCEPT !.kind = "cleanup", !.quiet = QuietNow]
       IN IF watcher # 0
          THEN /\ tasks' = [Disturb(tasks) EXCEPT
                               ![NextTask] = [new EXCEPT !.pc = "closing"]]
               /\ subs' = subs \ {watcher}
               /\ events' = [p \in Paths |-> Purge(events[p], watcher)]
               /\ UNCHANGED ret
          ELSE /\ tasks' = Disturb(tasks)
               /\ ret' = Return(new, FALSE, cache, isWatcherInitialized)
               /\ UNCHANGED <<subs, events>>
    /\ UNCHANGED <<fs, clock, cache, watcher, isWatcherInitialized, nextSub,
                   loads, lastDel>>

\* a slip: the flag is reset and the handle is kept
CleanupDoneKeep(t) ==
    /\ tasks[t].pc = "closing"
    /\ isWatcherInitialized' = FALSE
    /\ tasks' = [tasks EXCEPT ![t] = Idle]
    /\ ret' = Return(tasks[t], FALSE, cache, FALSE)
    /\ UNCHANGED <<inputs, budget, fs, clock, cache, subs, nextSub, events, loads,
                   calls, lastDel, watcher>>

\* a slip: the flag is not reset
CleanupDoneMut(t) ==
    /\ tasks[t].pc = "closing"
    /\ watcher' = 0
    /\ tasks' = [tasks EXCEPT ![t] = Idle]
    /\ ret' = Return(tasks[t], FALSE, cache, isWatcherInitialized)
    /\ UNCHANGED <<inputs, budget, fs, clock, cache, subs, nextSub, events, loads,
                   calls, lastDel, isWatcherInitialized>>

\* cleanup after the close: forget the watcher
CleanupDone(t) ==
    /\ tasks[t].pc = "closing"
    /\ watcher' = 0
    /\ isWatcherInitialized' = FALSE
    /\ tasks' = [tasks EXCEPT ![t] = Idle]
    /\ ret' = Return(tasks[t], FALSE, cache, FALSE)
    /\ UNCHANGED <<inputs, budget, fs, clock, cache, subs, nextSub, events, loads,
                   calls, lastDel>>

\* ------------------------------------------------------------- the resolver
\* findPromptFile, first phase: the path root/<sanitized name>.md, relative to
\* the root, and fs.access of it
DirectPath(name) == SanitizeFileName(name) \o Ext
Access(dir, rel) == rel \in DOMAIN dir /\ dir[rel].exists

\* searchDir's test of a document at the root-relative path rel: its path
\* without the extension is the name, or sanitizes to what the name does
Matches(name, rel) ==
    LET pathWithoutExt == StripMd(rel)
    IN \/ pathWithoutExt = name
       \/ SanitizeFileName(pathWithoutExt) = SanitizeFileName(name)

\* searchDir: the walk returns the first match in readdir order, which is
\* unspecified, so any matching document that is not under a hidden entry
SearchDir(name, dir) ==
    {Join(PromptsDir, f) : f \in {g \in DOMAIN dir :
        dir[g].exists /\ ~IsHidden(g) /\ EndsWith(g, Ext) /\ Matches(name, g)}}

\* what a resolution yields: the path found (<<>> for null), and whether the
\* tree was walked
Found(path, walked) == [path |-> path, walked |-> walked]

\* a slip: the tree is walked first and the direct path tried last
FindPromptFileMut(name, dir) ==
    IF SearchDir(name, dir) # {}
    THEN {Found(f, TRUE) : f \in SearchDir(name, dir)}
    ELSE IF Access(dir, DirectPath(name))
         THEN {Found(Join(PromptsDir, DirectPath(name)), TRUE)}
         ELSE {Found(<<>>, TRUE)}

\* findPromptFile on the directory dir: the outcomes it can have
FindPromptFile(name, dir) ==
    IF Access(dir, DirectPath(name))
    THEN {Found(Join(PromptsDir, DirectPath(name)), FALSE)}
    ELSE IF SearchDir(name, dir) = {}
         THEN {Found(<<>>, TRUE)}
         ELSE {Found(f, TRUE) : f \in SearchDir(name, dir)}

\* ------------------------------------------------- getPromptInfo, readPrompt
\* the names the operations are called with: a_b, a/b, new
N_nested == <<"a", "/", "b">>
Names == {N_ab, N_nested, N_new}

\* getPromptInfo: the record of the map, or undefined
GetPromptInfoCall(name) ==
    /\ Input
    /\ calls' = [calls EXCEPT !.info = @ + 1]
    /\ tasks' = Disturb(tasks)
    /\ ret' = [Return([Idle EXCEPT !.kind = "info", !.quiet = QuietNow],
                      FALSE, cache, isWatcherInitialized)
                  EXCEPT !.name = name, !.info = GetPrompt(cache, name)]
    /\ UNCHANGED <<fs, clock, cache, watcher, isWatcherInitialized, subs,
                   nextSub, events, loads, lastDel>>

\* readPrompt calls findPromptFile, which awaits fs.access of the direct path.
\* The continuations of readPrompt touch nothing but the call's own frame, so
\* each is taken together with the filesystem call it follows
ReadPromptCall(name) ==
    /\ Input
    /\ calls' = [calls EXCEPT !.read = @ + 1]
    /\ tasks' = [Disturb(tasks) EXCEPT ![NextTask] =
                    [Idle EXCEPT !.kind = "read", !.pc = "access",
                                 !.name = name, !.quiet = QuietNow]]
    /\ UNCHANGED <<fs, clock, cache, watcher, isWatcherInitialized, subs,
                   nextSub, events, loads, ret, lastDel>>

\* what readPrompt leaves in ret: the file found and the text read, <<>> for
\* the "not found" error
ReadReturn(task, path, text) ==
    [Return(task, FALSE, cache, isWatcherInitialized)
        EXCEPT !.name = task.name, !.found = path, !.text = text]

\* fs.access(directPath): found at the root, or the walk is next
AccessIO(t) ==
    /\ tasks[t].pc = "access"
    /\ tasks' = [tasks EXCEPT ![t] =
                    IF Access(fs, DirectPath(tasks[t].name))
                    THEN [@ EXCEPT !.pc = "read",
                             !.found = Join(PromptsDir, DirectPath(tasks[t].name))]
                    ELSE [@ EXCEPT !.pc = "walk"]]
    /\ UNCHANGED <<inputs, budget, fs, clock, cache, watcher, isWatcherInitialized,
                   subs, nextSub, events, loads, calls, ret, lastDel>>

\* searchDir reads the tree: a match, whose file readPrompt reads next, or
\* null, on which readPrompt throws
WalkIO(t) ==
    /\ tasks[t].pc = "walk"
    /\ IF SearchDir(tasks[t].name, fs) = {}
       THEN /\ tasks' = [tasks EXCEPT ![t] = Idle]
            /\ ret' = ReadReturn(tasks[t], <<>>, <<>>)
       ELSE /\ \E f \in SearchDir(tasks[t].name, fs) :
                  tasks' = [tasks EXCEPT ![t].pc = "read", ![t].found = f]
            /\ UNCHANGED ret
    /\ UNCHANGED <<inputs, budget, fs, clock, cache, watcher, isWatcherInitialized,
                   subs, nextSub, events, loads, calls, lastDel>>

\* the file the filesystem has at an absolute path
FileAt(dir, abs) ==
    LET rel == Relative(PromptsDir, abs)
    IN IF rel \in DOMAIN dir THEN dir[rel] ELSE NoFile

\* a slip: the file read is put into the map on the way
ReadIOMut(t) ==
    /\ tasks[t].pc = "read"
    /\ tasks' = [tasks EXCEPT ![t] = Idle]
    /\ LET file == FileAt(fs, tasks[t].found)
           rel == Relative(PromptsDir, tasks[t].found)
       IN /\ ret' = ReadReturn(tasks[t], tasks[t].found,
                       IF file.exists THEN <<file.ver>> ELSE <<>>)
          /\ cache' = IF file.exists
                      THEN MapSet(cache, NameOf(rel),
                                  PromptInfo(NameOf(rel), rel, file.ver))
                      ELSE cache
    /\ UNCHANGED <<inputs, budget, fs, clock, watcher, isWatcherInitialized,
                   subs, nextSub, events, loads, calls, lastDel>>

\* fs.readFile(filePath): the content, or the "not found" error
ReadIO(t) ==
    /\ tasks[t].pc = "read"
    /\ tasks' = [tasks EXCEPT ![t] = Idle]
    /\ LET file == FileAt(fs, tasks[t].found)
       IN ret' = ReadReturn(tasks[t], tasks[t].found,
                    IF file.exists THEN <<file.ver>> ELSE <<>>)
    /\ UNCHANGED <<inputs, budget, fs, clock, cache, watcher, isWatcherInitialized,
                   subs, nextSub, events, loads, calls, lastDel>>

\* --------------------------------------------------- the directory changes
\* history: a write no subscription saw, made after a scan may have passed
Missed == subs = {} /\ calls.runs > 0

Write(p, file, type) ==
    /\ Input
    /\ clock' = clock + 1
    /\ fs' = [fs EXCEPT ![p] = file]
    /\ events' = [events EXCEPT ![p] =
                     @ \o Emitted(type, Join(PromptsDir, p), clock + 1)]
    /\ tasks' = Disturb(tasks)
    /\ calls' = [calls EXCEPT !.missed = @ \/ Missed,
                              !.good = @ \/ (file.exists /\ file.ok)]
    /\ UNCHANGED <<cache, watcher, isWatcherInitialized, subs, nextSub, loads,
                   ret, lastDel>>

CreateFile(p, ok) == ~fs[p].exists /\ Write(p, File(clock + 1, ok), "add")
ModifyFile(p, ok) == fs[p].exists /\ Write(p, File(clock + 1, ok), "change")
RemoveFile(p) == fs[p].exists /\ Write(p, NoFile, "unlink")

\* chokidar calls the listener of the oldest undelivered event of a file:
\* add and change call updateCacheForFile, unlink calls removeFromCache
Deliver(p) ==
    /\ events[p] # <<>>
    /\ LET e == Head(events[p])
           abs == Join(PromptsDir, p)
       IN /\ events' = [events EXCEPT ![p] = Tail(@)]
          /\ lastDel' = [type |-> e.type, rel |-> p, stamp |-> e.stamp,
                         clean |-> BulkRunning = {}, runs |-> calls.runs]
          /\ IF e.type = "unlink"
             THEN /\ cache' = RemoveFromCache(cache, abs)
                  /\ UNCHANGED loads
             ELSE /\ loads' = loads \cup UpdateCacheForFile(abs, 0, e.sub, e.stamp)
                  /\ UNCHANGED cache
    /\ tasks' = Disturb(tasks)
    /\ UNCHANGED <<inputs, budget, fs, clock, watcher, isWatcherInitialized, subs,
                   nextSub, calls, ret>>

Next ==
    \/ ListCall
    \/ BulkCall
    \/ AttachCall
    \/ CleanupCall
    \/ \E t \in DOMAIN tasks : ScanIO(t)
    \/ \E t \in DOMAIN tasks : ScanDone(t)
    \/ \E t \in DOMAIN tasks : CleanupDone(t)
    \/ \E l \in loads : ReadFile(l)
    \/ \E l \in loads : LoadDone(l)
    \/ \E p \in Paths, ok \in BOOLEAN : CreateFile(p, ok)
    \/ \E p \in Paths, ok \in BOOLEAN : ModifyFile(p, ok)
    \/ \E p \in Paths : RemoveFile(p)
    \/ \E p \in Paths : Deliver(p)
    \/ \E name \in Names : GetPromptInfoCall(name)
    \/ \E name \in Names : ReadPromptCall(name)
    \/ \E t \in DOMAIN tasks : AccessIO(t)
    \/ \E t \in DOMAIN tasks : WalkIO(t)
    \/ \E t \in DOMAIN tasks : ReadIO(t)

Spec == Init /\ [][Next]_vars
SpecDeep == InitDeep /\ [][Next]_vars

\* the life cycle of the watcher: listPrompts, initializeFileWatcher and
\* cleanup calls, with files of the directory modified meanwhile
InitWatch == Start(MaxWatch)

NextWatch ==
    \/ ListCall
    \/ AttachCall
    \/ CleanupCall
    \/ \E t \in DOMAIN tasks : ScanIO(t)
    \/ \E t \in DOMAIN tasks : ScanDone(t)
    \/ \E t \in DOMAIN tasks : CleanupDone(t)
    \/ \E l \in loads : ReadFile(l)
    \/ \E l \in loads : LoadDone(l)
    \/ \E p \in Paths : ModifyFile(p, TRUE)
    \/ \E p \in Paths : Deliver(p)

SpecWatch == InitWatch /\ [][NextWatch]_vars

\* ------------------------------- updateCacheForFile, removeFromCache alone
\* the paths the two are called with: root-relative as initializeCache gives
\* them, absolute as the watcher does
KeyPaths == Paths \cup {Join(PromptsDir, p) : p \in Paths}
KeyDirs ==
    { [p \in Paths |-> IF p \in S THEN File(0, TRUE) ELSE NoFile] :
        S \in SUBSET Paths }

\* the cache with nobody else calling it; one file may be removed meanwhile
InitKeys ==
    /\ budget = 1
    /\ fs \in KeyDirs
    /\ clock = 0
    /\ cache = EmptyMap
    /\ watcher = 0
    /\ isWatcherInitialized = FALSE
    /\ subs = {}
    /\ nextSub = 1
    /\ events = [p \in Paths |-> <<>>]
    /\ tasks = <<>>
    /\ loads = {}
    /\ inputs = 0
    /\ calls = [list |-> 0, attach |-> 0, cleanup |-> 0, runs |-> 0,
                missed |-> FALSE, info |-> 0, read |-> 0,
                good |-> \E p \in Paths : fs[p].exists /\ fs[p].ok]
    /\ ret = NoRet
    /\ lastDel = NoEvent

\* updateCacheForFile(filePath), called when the call before it is over
UpsertCall(filePath) ==
    /\ loads = {}
    /\ loads' = UpdateCacheForFile(filePath, 0, 0, 0)
    /\ ret' = [NoRet EXCEPT !.kind = "upsert", !.name = filePath, !.prev = cache]
    /\ UNCHANGED <<fs, clock, cache, watcher, isWatcherInitialized, subs,
                   nextSub, events, tasks, inputs, budget, calls, lastDel>>

\* removeFromCache(filePath); again: the call before it was updateCacheForFile
\* of the same file
RemoveCall(filePath) ==
    /\ loads = {}
    /\ cache' = RemoveFromCache(cache, filePath)
    /\ ret' = [NoRet EXCEPT !.kind = "remove", !.name = filePath,
                            !.prev = cache, !.result = cache',
                            !.again = /\ ret.kind = "upsert"
                                      /\ RelativePathOf(ret.name) =
                                            RelativePathOf(filePath)]
    /\ UNCHANGED <<fs, clock, watcher, isWatcherInitialized, subs, nextSub,
                   events, tasks, loads, inputs, budget, calls, lastDel>>

NextKeys ==
    \/ \E filePath \in KeyPaths : UpsertCall(filePath)
    \/ \E filePath \in KeyPaths : RemoveCall(filePath)
    \/ \E l \in loads : ReadFile(l)
    \/ \E l \in loads : LoadDone(l)
    \/ \E p \in Paths : RemoveFile(p)

SpecKeys == InitKeys /\ [][NextKeys]_vars

\* ------------------------------------------------- the resolver on its own
\* findPromptFile as the shorter PromptFileOperations has it: no direct path,
\* the walk with the exact comparison alone
FindPromptFileExact(name, dir) ==
    LET hits == {g \in DOMAIN dir :
                    /\ dir[g].exists /\ ~IsHidden(g) /\ EndsWith(g, Ext)
                    /\ StripMd(g) = name}
    IN IF hits = {} THEN {Found(<<>>, TRUE)}
       ELSE {Found(Join(PromptsDir, g), TRUE) : g \in hits}

\* the directories and the names the resolver is tried on
R_nested == <<"t", "e", "a", "m", "/", "r", "e", "v", "i", "e", "w", ".", "m", "d">>
R_flat == <<"t", "e", "a", "m", "_", "r", "e", "v", "i", "e", "w", ".", "m", "d">>
R_upper == <<"T", "e", "a", "m", "/", "r", "e", "v", "i", "e", "w", ".", "m", "d">>
R_hidden == <<".", "t", "/", "r", "e", "v", "i", "e", "w", ".", "m", "d">>
R_other == <<"t", "e", "a", "m", "/", "o", "t", "h", "e", "r", ".", "m", "d">>
ResolvePaths == {R_nested, R_flat, R_upper, R_hidden, R_other}
ResolveDirs ==
    { [p \in ResolvePaths |-> IF p \in S THEN File(0, TRUE) ELSE NoFile] :
        S \in SUBSET ResolvePaths }

Q_review == <<"t", "e", "a", "m", "/", "r", "e", "v", "i", "e", "w">>
Q_REVIEW == <<"T", "E", "A", "M", "/", "R", "E", "V", "I", "E", "W">>
Q_missing == <<"t", "e", "a", "m", "/", "m", "i", "s", "s", "i", "n", "g">>
Q_flat == <<"t", "e", "a", "m", "_", "r", "e", "v", "i", "e", "w">>
Q_hidden == <<".", "t", "/", "r", "e", "v", "i", "e", "w">>
ResolveNames == {Q_review, Q_REVIEW, Q_missing, Q_flat, Q_hidden}

\* a resolver with nothing else going on: the server on one of the directories
InitResolve ==
    /\ budget = 0
    /\ fs \in ResolveDirs
    /\ clock = 0
    /\ cache = EmptyMap
    /\ watcher = 0
    /\ isWatcherInitialized = FALSE
    /\ subs = {}
    /\ nextSub = 1
    /\ events = [p \in ResolvePaths |-> <<>>]
    /\ tasks = <<>>
    /\ loads = {}
    /\ inputs = 0
    /\ calls = [list |-> 0, attach |-> 0, cleanup |-> 0, runs |-> 0,
                missed |-> FALSE, info |-> 0, read |-> 0,
                good |-> \E p \in ResolvePaths : fs[p].exists /\ fs[p].ok]
    /\ ret = NoRet
    /\ lastDel = NoEvent

\* findPromptFile(name) on the directory as it is
ResolveCall(name) ==
    /\ \E r \in FindPromptFile(name, fs) :
          ret' = [NoRet EXCEPT !.kind = "resolve", !.name = name,
                               !.found = r.path, !.walked = r.walked]
    /\ UNCHANGED <<fs, clock, cache, watcher, isWatcherInitialized, subs,
                   nextSub, events, tasks, loads, inputs, budget, calls, lastDel>>

\* the same call on the shorter class
ResolveExactCall(name) ==
    /\ \E r \in FindPromptFileExact(name, fs) :
          ret' = [NoRet EXCEPT !.kind = "resolveExact", !.name = name,
                               !.found = r.path, !.walked = r.walked]
    /\ UNCHANGED <<fs, clock, cache, watcher, isWatcherInitialized, subs,
                   nextSub, events, tasks, loads, inputs, budget, calls, lastDel>>

NextResolve ==
    \/ \E name \in ResolveNames : ResolveCall(name)
    \/ \E name \in ResolveNames : ResolveExactCall(name)

SpecResolve == InitResolve /\ [][NextResolve]_vars

\* ------------------------------------------- listPrompts, then readPrompt
\* readPrompt of the shorter class: findPromptFile walks the tree at once
ReadPromptExactCall(name) ==
    /\ Input
    /\ calls' = [calls EXCEPT !.read = @ + 1]
    /\ tasks' = [Disturb(tasks) EXCEPT ![NextTask] =
                    [Idle EXCEPT !.kind = "readExact", !.pc = "walkExact",
                                 !.name = name, !.quiet = QuietNow]]
    /\ UNCHANGED <<fs, clock, cache, watcher, isWatcherInitialized, subs,
                   nextSub, events, loads, ret, lastDel>>

\* its searchDir reads the tree: a document whose path without the extension
\* is the name, whose file readPrompt reads next, or null, on which it throws
WalkExactIO(t) ==
    /\ tasks[t].pc = "walkExact"
    /\ \E r \in FindPromptFileExact(tasks[t].name, fs) :
          IF r.path = <<>>
          THEN /\ tasks' = [tasks EXCEPT ![t] = Idle]
               /\ ret' = ReadReturn(tasks[t], <<>>, <<>>)
          ELSE /\ tasks' = [tasks EXCEPT ![t].pc = "read", ![t].found = r.path]
               /\ UNCHANGED ret
    /\ UNCHANGED <<inputs, budget, fs, clock, cache, watcher, isWatcherInitialized,
                   subs, nextSub, events, loads, calls, lastDel>>

\* the directories listed and read from: any set of readable documents
FetchDirs ==
    { [p \in Paths |-> IF p \in S THEN File(0, TRUE) ELSE NoFile] :
        S \in SUBSET Paths }

\* the server on one of them, and a directory that nothing writes to
InitFetch ==
    /\ budget = MaxInputs
    /\ fs \in FetchDirs
    /\ clock = 0
    /\ cache = EmptyMap
    /\ watcher = 0
    /\ isWatcherInitialized = FALSE
    /\ subs = {}
    /\ nextSub = 1
    /\ events = [p \in Paths |-> <<>>]
    /\ tasks = [t \in 1..MaxInputs |-> Idle]
    /\ loads = {}
    /\ inputs = 0
    /\ calls = [list |-> 0, attach |-> 0, cleanup |-> 0, runs |-> 0,
                missed |-> FALSE, info |-> 0, read |-> 0,
                good |-> \E p \in Paths : fs[p].exists /\ fs[p].ok]
    /\ ret = NoRet
    /\ lastDel = NoEvent

NextFetch ==
    \/ ListCall
    \/ \E t \in DOMAIN tasks : ScanIO(t)
    \/ \E t \in DOMAIN tasks : ScanDone(t)
    \/ \E l \in loads : ReadFile(l)
    \/ \E l \in loads : LoadDone(l)
    \/ \E name \in Names : ReadPromptCall(name)
    \/ \E name \in Names : ReadPromptExactCall(name)
    \/ \E t \in DOMAIN tasks : AccessIO(t)
    \/ \E t \in DOMAIN tasks : WalkIO(t)
    \/ \E t \in DOMAIN tasks : WalkExactIO(t)
    \/ \E t \in DOMAIN tasks : ReadIO(t)

SpecFetch == InitFetch /\ [][NextFetch]_vars

\* ------------------------------------------------------------------ claims
\* c holds exactly the records of the loadable files among `files` of dir
IsIndexOf(c, files, dir) ==
    LET good == {f \in files : dir[f].exists /\ dir[f].ok}
    IN /\ DOMAIN c = {NameOf(f) : f \in good}
       /\ \A n \in DOMAIN c :
            \E f \in good : c[n] = PromptInfo(n, f, dir[f].ver)

\* C1: while a bulk load is under way and nothing else is, a reader sees the
\* map of before the load or the complete map of after it, never less
C1_AtomicSwap ==
    \A t \in BulkRunning :
        (tasks[t].pc = "loading" /\ tasks[t].quiet) =>
            \/ cache = tasks[t].pre
            \/ IsIndexOf(cache, tasks[t].files, fs)

\* C2: listPrompts calls alone, on a directory with a loadable document, run
\* the bulk load once and create one subscription, however they overlap
C2_InitOnce ==
    (calls.list = inputs /\ \E p \in Paths : fs[p].exists /\ fs[p].ok) =>
        (calls.runs <= 1 /\ nextSub <= 2)

\* C3: when a bulk load returns, and the directory never changed (so that no
\* watcher event exists), the keys of the map are the names of the files of
\* its scan that it loaded
C3_FullReplace ==
    (ret.ranBulk /\ ret.clk = 0) => DOMAIN ret.result = ret.loaded

\* C4 as claimed: two bulk loads in succession, with nothing else under way
\* and the directory unchanged, return the same map
C4_Idempotent == ret.again => ret.result = ret.prev

\* the name n has one file among `files`
SoleSource(files, n) == Cardinality({f \in files : NameOf(f) = n}) = 1

\* C4 as amended: they return the same names, and the same record under every
\* name that a single file of the directory flattens to
C4_IdempotentNames ==
    ret.again =>
        /\ DOMAIN ret.result = DOMAIN ret.prev
        /\ \A n \in DOMAIN ret.result :
              SoleSource(ret.files, n) => ret.result[n] = ret.prev[n]

C4_Witness ==
    /\ ret.again
    /\ Cardinality(DOMAIN ret.result) = 2
    /\ \A n \in DOMAIN ret.result : SoleSource(ret.files, n)

\* the latest event delivered is of type ty, no bulk load has run since it was
\* delivered, and every listener call made so far has finished
Processed(ty) ==
    /\ lastDel.type \in ty
    /\ lastDel.clean
    /\ lastDel.runs = calls.runs
    /\ BulkRunning = {}
    /\ \A l \in loads : l.owner # 0

\* C5: once the unlink event of a file that listPrompts had listed is
\* delivered, and until a later event or bulk load, no record of that file is
\* in the map, whatever the interleaving with the earlier events of the file
C5_DeletedStaysAbsent ==
    LET n == NameOf(lastDel.rel)
    IN (/\ lastDel.type = "unlink"
        /\ lastDel.clean
        /\ lastDel.runs = calls.runs
        /\ BulkRunning = {}
        /\ ret.kind = "list"
        /\ n \in DOMAIN ret.result
        /\ ret.result[n].src = lastDel.rel) =>
           ~(n \in DOMAIN cache /\ cache[n].src = lastDel.rel)

\* C6: new.md is created loadable after a bulk load; once its add event is
\* delivered and processed, with no bulk load in between, getPrompt("new")
\* yields a record
C6_Incremental ==
    (/\ Processed({"add"})
     /\ lastDel.rel = P_new
     /\ calls.runs >= 1
     /\ fs[P_new] = File(lastDel.stamp, TRUE)) =>
        /\ GetPrompt(cache, N_new) # <<>>
        /\ cache[N_new].name = N_new

C6_Witness ==
    /\ Processed({"add"})
    /\ lastDel.rel = P_new
    /\ fs[P_new] = File(lastDel.stamp, TRUE)
    /\ calls.list = 1
    /\ calls.runs = 1
    /\ ret.kind = "list"
    /\ ret.clk = 0
    /\ GetPrompt(cache, N_new) = <<PromptInfo(N_new, P_new, lastDel.stamp)>>

\* C7: with the directory at rest and every event processed, and no write
\* that the watcher could not see, the map holds exactly the records of the
\* loadable documents on disk
C7_EventuallyConsistent ==
    (/\ QuietNow
     /\ calls.runs >= 1
     /\ calls.cleanup = 0
     /\ ~calls.missed) =>
        IsIndexOf(cache, FindMarkdownFiles(fs), fs)

\* C8: when the events of a file are all delivered and processed, the record
\* of the file is that of the latest event, not of an earlier one
C8_EmissionOrder ==
    (/\ Processed({"add", "change"})
     /\ events[lastDel.rel] = <<>>
     /\ fs[lastDel.rel] = File(lastDel.stamp, TRUE)) =>
        LET n == NameOf(lastDel.rel)
        IN (n \in DOMAIN cache /\ cache[n].src = lastDel.rel) =>
               cache[n].ver = lastDel.stamp

\* C9: as long as cleanup was never called, the first initializeFileWatcher
\* call creates the only subscription and every later call creates none
C9_AttachOnce ==
    calls.cleanup = 0 =>
        /\ Cardinality(subs) <= 1
        /\ nextSub = (IF calls.attach >= 1 THEN 2 ELSE 1)
        /\ isWatcherInitialized = (calls.attach >= 1)

C9_Witness ==
    /\ calls.cleanup = 0
    /\ calls.attach >= 2
    /\ subs = {1}

\* C10: a listPrompts call returns with the watcher attached
C10_ListReturnsAttached == ret.kind = "list" => ret.attached

\* C11: no file under a hidden entry is among the files of a scan, and none has
\* a record in the map, whether the bulk load or a watcher event put it there
C11_HiddenNeverIndexed ==
    /\ \A t \in DOMAIN tasks : \A f \in tasks[t].files : ~IsHidden(f)
    /\ \A n \in DOMAIN cache : ~IsHidden(cache[n].src)

\* C12: a bulk load that ran alone on a directory with loadable files and files
\* whose read or parse fails returns to its caller, and the map then holds
\* exactly the records of the loadable files
C12_PartialFailure ==
    (ret.ranBulk /\ ret.quiet /\ ret.clk = clock) =>
        IsIndexOf(ret.result, ret.files, fs)

C12_Witness ==
    /\ ret.ranBulk /\ ret.quiet /\ ret.clk = clock
    /\ \E f \in ret.files : fs[f].ok
    /\ \E f \in ret.files : ~fs[f].ok
    /\ Cardinality(DOMAIN ret.result) = 1

\* C13: once the add or change event of a file that cannot be read or parsed
\* is delivered and processed, the map holds no record of that file
C13_FailedLoadExcluded ==
    (/\ Processed({"add", "change"})
     /\ events[lastDel.rel] = <<>>
     /\ fs[lastDel.rel] = File(lastDel.stamp, FALSE)) =>
        LET n == NameOf(lastDel.rel)
        IN ~(n \in DOMAIN cache /\ cache[n].src = lastDel.rel)

\* C14: when the load of a file completes with a record, the map holds under
\* the file's name that record and no other: of a/b.md and a_b.md, which share
\* the name a_b, the one whose load completed last has the entry
C14_LastLoadWins ==
    [][\A l \in loads :
          (l.st = "ok" /\ l \notin loads') =>
              /\ NameOf(l.rel) \in DOMAIN cache'
              /\ cache'[NameOf(l.rel)] = PromptInfo(NameOf(l.rel), l.rel, l.ver)]_vars

C14_Witness ==
    /\ ret.ranBulk /\ ret.quiet /\ ret.clk = 0
    /\ ret.files = {P_nested, P_flat}
    /\ DOMAIN ret.result = {N_ab}
    /\ ret.result[N_ab].src = P_nested

\* the documents of the directory that a walk can reach
Documents(dir) ==
    {f \in DOMAIN dir : dir[f].exists /\ ~IsHidden(f) /\ EndsWith(f, Ext)}

ReadStep ==
    \/ calls'.info # calls.info
    \/ calls'.read # calls.read
    \/ \E t \in DOMAIN tasks : tasks[t].kind = "read" /\ tasks'[t].pc # tasks[t].pc

\* C16: getPromptInfo and readPrompt leave the map, the watcher and its flag
\* as they are and start no bulk load and no subscription: while no other
\* operation was called the cache stays empty and unattached, in any state no
\* step of theirs changes the cache, and getPromptInfo answers with what the
\* map holds, even if the file of the name is on disk
C16_ReadsLeaveCache ==
    /\ []((calls.info + calls.read = inputs) =>
            /\ cache = EmptyMap /\ loads = {}
            /\ watcher = 0 /\ ~isWatcherInitialized /\ subs = {}
            /\ calls.runs = 0 /\ calls.attach = 0
            /\ ret.kind = "info" => ret.info = <<>>)
    /\ [][ReadStep =>
            /\ UNCHANGED <<cache, watcher, isWatcherInitialized, subs, nextSub,
                           loads, events, fs>>
            /\ calls'.runs = calls.runs /\ calls'.attach = calls.attach
            /\ calls'.info # calls.info =>
                  ret'.info = GetPrompt(cache, ret'.name)]_vars

C16_Witness ==
    /\ calls.info = 1 /\ calls.read = 1 /\ inputs = 2
    /\ ret.kind = "read" /\ ret.name = N_ab /\ ret.text # <<>>
    /\ cache = EmptyMap /\ ~isWatcherInitialized

\* C17: as long as the directory never held a loadable document, the map is
\* empty, every listPrompts call has run a bulk load of its own (the bulk
\* loads are no fewer than the listPrompts calls, each of which runs at most
\* one), at most one subscription was created (cleanup aside), and a
\* listPrompts call returns an empty list
C17_EmptyRetries ==
    ~calls.good =>
        /\ cache = EmptyMap
        /\ calls.runs >= calls.list
        /\ calls.cleanup = 0 => nextSub <= 2
        /\ ret.kind = "list" => (ret.ranBulk /\ ret.result = EmptyMap)

C17_Witness ==
    /\ ~calls.good
    /\ fs[P_new] = File(0, FALSE)
    /\ calls.list = 2 /\ calls.runs = 2 /\ Running = {}
    /\ ret.kind = "list" /\ ret.result = EmptyMap
    /\ subs = {1} /\ nextSub = 2

\* C18: a cleanup call on an attached watcher closes its subscription, and
\* when it completes the watcher is forgotten and the flag reset; an
\* initializeFileWatcher call that finds the flag reset opens a subscription
\* that was not open before; a cleanup call without a watcher changes nothing
C18_DetachAttach ==
    [][/\ (calls'.cleanup # calls.cleanup /\ watcher # 0) =>
              (watcher \notin subs' /\ \E t \in DOMAIN tasks : tasks'[t].pc = "closing")
       /\ (calls'.cleanup # calls.cleanup /\ watcher = 0) =>
              UNCHANGED <<cache, watcher, isWatcherInitialized, subs, nextSub,
                          events, loads>>
       /\ (\E t \in DOMAIN tasks : tasks[t].pc = "closing" /\ tasks'[t].pc = "idle") =>
              (watcher' = 0 /\ ~isWatcherInitialized')
       /\ (calls'.attach # calls.attach /\ ~isWatcherInitialized) =>
              /\ watcher' \notin subs /\ watcher' # 0
              /\ subs' = subs \cup {watcher'}
              /\ isWatcherInitialized']_vars

\* attach, detach to completion, attach: the second subscription is open
C18_Witness ==
    /\ calls.cleanup = 1 /\ calls.attach = 2 /\ Running = {}
    /\ ret.kind = "cleanup"
    /\ subs = {2} /\ watcher = 2 /\ isWatcherInitialized

\* C19: removeFromCache(p) returns without reading a file, deletes at most
\* one key and leaves every other entry as it was; called after
\* updateCacheForFile of the same file, given as an absolute or a relative
\* path, it leaves no record of that file, whether or not a key was there
C19_RemoveUndoesUpsert ==
    ret.kind = "remove" =>
        /\ loads = {}
        /\ DOMAIN ret.result \subseteq DOMAIN ret.prev
        /\ \A n \in DOMAIN ret.result : ret.result[n] = ret.prev[n]
        /\ Cardinality(DOMAIN ret.prev \ DOMAIN ret.result) <= 1
        /\ ret.again =>
              \A n \in DOMAIN ret.result :
                  ret.result[n].src # RelativePathOf(ret.name)

\* a/b.md is upserted by its relative path and removed by its absolute one,
\* after the file is gone, and the entry of new.md stays
C19_Witness ==
    /\ ret.kind = "remove" /\ ret.again
    /\ ret.name = Join(PromptsDir, P_nested)
    /\ ~fs[P_nested].exists
    /\ DOMAIN ret.prev = {N_ab, N_new}
    /\ ret.prev[N_ab].src = P_nested
    /\ DOMAIN ret.result = {N_new}

IsFlattened(n, rel) ==
    /\ Len(rel) >= 3
    /\ rel[Len(rel) - 2] = "." /\ rel[Len(rel) - 1] = "m" /\ rel[Len(rel)] = "d"
    /\ Len(n) = Len(rel) - 3
    /\ \A i \in 1..Len(n) : n[i] = (IF rel[i] = "/" THEN "_" ELSE rel[i])

\* C21: every key of the map is the name of the record under it, and is the
\* flattened root-relative path of the file the record was loaded from
C21_KeyIsName ==
    \A n \in DOMAIN cache :
        /\ cache[n].name = n
        /\ IsFlattened(n, cache[n].src)
        /\ ~IsAbsolute(cache[n].src)

\* a/b.md, created under the watcher and loaded from its absolute path
C21_Witness ==
    /\ Processed({"add"}) /\ lastDel.rel = P_nested
    /\ N_ab \in DOMAIN cache
    /\ cache[N_ab] = PromptInfo(N_ab, P_nested, lastDel.stamp)

\* C22: in every state between two ticks the flag is set exactly when a
\* watcher handle is held, whatever the interleaving of initializeFileWatcher
\* and cleanup calls and of the completions of the closes
C22_FlagIffHandle == isWatcherInitialized <=> (watcher # 0)

\* two cleanup calls await the close of the same watcher, whose subscription
\* is gone, while the flag and the handle are still set
C22_Witness ==
    /\ Cardinality({t \in DOMAIN tasks : tasks[t].pc = "closing"}) = 2
    /\ isWatcherInitialized /\ watcher # 0 /\ watcher \notin subs

\* a readPrompt call of either class has returned; it was made with nothing
\* else under way, after a listPrompts call, on a directory that was never
\* written to, with a name that the map, as listed, holds
FetchedListed ==
    /\ ret.kind \in {"read", "readExact"}
    /\ ret.quiet /\ clock = 0
    /\ calls.list >= 1 /\ calls.runs >= 1
    /\ ret.name \in DOMAIN ret.result

\* C23: after a bulk load on an unchanging directory of readable documents,
\* readPrompt of a listed name finds a file and returns its text
C23_ListedFetchable ==
    FetchedListed => (ret.found # <<>> /\ ret.text # <<>>)

\* the same of the readPrompt whose findPromptFile has the sanitized forms
ListedFetchableSanitized ==
    (FetchedListed /\ ret.kind = "read") =>
        (ret.found # <<>> /\ ret.text # <<>>)

\* a_b, listed for a/b.md alone, is read through the sanitized comparison
ListedFetchableSanitizedWitness ==
    /\ FetchedListed /\ ret.kind = "read"
    /\ ret.name = N_ab /\ ~fs[P_flat].exists
    /\ ret.found = Join(PromptsDir, P_nested) /\ ret.text # <<>>

====
